---- MODULE Spec2Model ----
(***************************************************************************)
(* The model of the logic component (app/components/logic/model/index.js): *)
(* parse -> analyze -> catch(handleError) -> row selection -> output state.*)
(*                                                                         *)
(* JavaScript values                                                       *)
(*  - null and undefined among strings are the strings nullStr and        *)
(*    undefinedStr; among objects and numbers null is the record null      *)
(*    (TLC compares only like with like).                                  *)
(*  - A property an object does not have is a field the record does not    *)
(*    have; reading it gives undefined (Has, detectedOf).                  *)
(*  - A number is the record of the positions of its 1 bits, so that rows  *)
(*    of tables wider than 31 columns can be written: 5 is Number({0, 2}). *)
(*  - A text is known by what each of the four grammars does with it.      *)
(***************************************************************************)
EXTENDS Integers, Sequences, FiniteSets, TLC

VARIABLES
  string,              \* the latest value of input$
  lang,                \* the latest value of language$
  showSubExpressions,  \* the latest value of showSubExpressions$
  analyzed,            \* the document the live inner stream was built from
  selectedRow,         \* what the scan of the live inner stream holds
  state,               \* the output state emitted last
  status,              \* "live", or "error" once the stream has ended in onError
  event                \* the event handled last, and the row held before it

vars ==
  <<string, lang, showSubExpressions, analyzed, selectedRow, state, status,
    event>>

null == [js |-> "null"]
nullStr == "null"
undefinedStr == "undefined"

Has(obj, key) == key \in DOMAIN obj

Number(bitSet) == [bits |-> bitSet]

Return(v) == [thrown |-> FALSE, value |-> v]
Throw(e) == [thrown |-> TRUE, error |-> e]

(***************************************************************************)
(* Raw parse trees, as the grammars build them                             *)
(***************************************************************************)
Identifier(n) == [node |-> "identifier", name |-> n]
Constant(v) == [node |-> "constant", value |-> v]
Unary(e) == [node |-> "unary", operator |-> "NOT", operand |-> e]
Group(e) == [node |-> "group", style |-> 1, content |-> e]
Binary(op, l, r) == [node |-> "binary", operator |-> op, lhs |-> l, rhs |-> r]

(***************************************************************************)
(* Identifier names: one letter each, with its character code              *)
(***************************************************************************)
Alphabet ==
  <<"a", "b", "c", "d", "e", "f", "g", "h", "i", "j", "k", "l", "m",
    "n", "o", "p", "q", "r", "s", "t", "u", "v", "w", "x", "y", "z",
    "A", "B", "C", "D", "E", "F", "G", "H", "I", "J">>

\* 'a' is 97 and 'A' is 65
CharCodes ==
  [name \in {Alphabet[k] : k \in 1..Len(Alphabet)} |->
     LET i == CHOOSE k \in 1..Len(Alphabet) : Alphabet[k] = name
     IN IF i <= 26 THEN 96 + i ELSE 38 + i]

charCodeAt(name) == CharCodes[name]

(***************************************************************************)
(* Immutable.js collections                                                *)
(***************************************************************************)
RECURSIVE Distinct(_)
\* the entries of a list, each kept where it occurs first
Distinct(list) ==
  IF list = <<>> THEN <<>>
  ELSE LET init == Distinct(SubSeq(list, 1, Len(list) - 1))
           last == list[Len(list)]
       IN IF \E i \in 1..Len(init) : init[i] = last THEN init
          ELSE Append(init, last)

RECURSIVE flatten(_)
\* List.flatMap, after the mapper has been applied to every entry
flatten(lists) ==
  IF lists = <<>> THEN <<>> ELSE Head(lists) \o flatten(Tail(lists))

\* a Map (and so a Set) keeps its entries in an array, in insertion order,
\* until it holds more than this many
MAX_ARRAY_MAP_SIZE == 8

\* the hash of a string of one character is the character's code
hash(name) == charCodeAt(name)

\* above MAX_ARRAY_MAP_SIZE the entries sit in a trie that is walked by the
\* hash, five bits at a time from the low end
trieIndex(name) == (hash(name) % 32) * 32 + ((hash(name) \div 32) % 32)

trieBefore(n, m) == trieIndex(n) < trieIndex(m)

trieOrder(names) == SortSeq(names, trieBefore)

\* List.toSet().toList(), on a list of names
toSetToList(list) ==
  LET entries == Distinct(list)
  IN IF Len(entries) <= MAX_ARRAY_MAP_SIZE THEN entries
     ELSE trieOrder(entries)

(***************************************************************************)
(* lib/expression                                                          *)
(***************************************************************************)
RECURSIVE expressionFromJson(_)
expressionFromJson(json) ==
  CASE json.node = "binary" ->
         [node |-> "binary", operator |-> json.operator,
          lhs |-> expressionFromJson(json.lhs),
          rhs |-> expressionFromJson(json.rhs)]
    [] json.node = "unary" ->
         [node |-> "unary", operator |-> json.operator,
          operand |-> expressionFromJson(json.operand)]
    [] json.node = "group" ->
         [node |-> "group", style |-> json.style,
          content |-> expressionFromJson(json.content)]
    [] json.node = "identifier" ->
         [node |-> "identifier", name |-> json.name]
    [] json.node = "constant" ->
         [node |-> "constant", value |-> json.value]

RECURSIVE preOrder(_)
\* the nodes of an expression, depth first, a node before its children
preOrder(expression) ==
  CASE expression.node = "binary" ->
         <<expression>> \o preOrder(expression.lhs) \o preOrder(expression.rhs)
    [] expression.node = "unary" ->
         <<expression>> \o preOrder(expression.operand)
    [] expression.node = "group" ->
         <<expression>> \o preOrder(expression.content)
    [] OTHER -> <<expression>>

collectIdentifiers(expression) ==
  LET nodes == preOrder(expression)
      names == [i \in 1..Len(nodes) |->
                  IF nodes[i].node = "identifier" THEN <<nodes[i].name>>
                  ELSE <<>>]
  IN Distinct(flatten(names))

collectSubExpressions(expression) == Distinct(preOrder(expression))

RECURSIVE evaluateExpression(_, _)
evaluateExpression(expression, identifierMap) ==
  CASE expression.node = "binary" ->
         LET l == evaluateExpression(expression.lhs, identifierMap)
             r == evaluateExpression(expression.rhs, identifierMap)
         IN (CASE expression.operator = "AND" -> l /\ r
               [] expression.operator = "OR" -> l \/ r
               [] expression.operator = "XOR" -> l # r)
    [] expression.node = "unary" ->
         ~evaluateExpression(expression.operand, identifierMap)
    [] expression.node = "group" ->
         evaluateExpression(expression.content, identifierMap)
    [] expression.node = "identifier" -> identifierMap[expression.name]
    [] expression.node = "constant" -> expression.value

(***************************************************************************)
(* The grammars (lib/syntax/logic-*.pegjs): a text carries, for each       *)
(* grammar, either the raw trees the grammar builds from it or the syntax  *)
(* error the grammar raises on it.                                         *)
(***************************************************************************)
Accepts(parsed) == [parsed |-> parsed]
Rejects(message, offset) ==
  [message |-> message, location |-> [start |-> [offset |-> offset]]]

parserParse(grammar, text) ==
  IF Has(text[grammar], "parsed") THEN Return(text[grammar].parsed)
  ELSE Throw(text[grammar])

(***************************************************************************)
(* model/index.js: languages                                               *)
(***************************************************************************)
detectedOf(obj) == IF Has(obj, "detected") THEN obj.detected ELSE undefinedStr

\* ParseError without the default of its detected parameter
ParseErrorWithoutDefault(args) ==
  [lang |-> args.lang,
   string |-> args.string,
   message |-> args.message,
   location |-> args.location,
   detected |-> detectedOf(args)]

ParseError(args) ==
  [lang |-> args.lang,
   string |-> args.string,
   message |-> args.message,
   location |-> args.location,
   detected |-> IF detectedOf(args) = undefinedStr THEN nullStr
                ELSE args.detected]

cLang == [name |-> "C", lang |-> "c"]
latexLang == [name |-> "Latex", lang |-> "latex"]
pythonLang == [name |-> "Python", lang |-> "python"]
mathLang == [name |-> "Math", lang |-> "math"]

\* the list with Latex tried before Python
allLanguagesLatexFirst == <<cLang, latexLang, pythonLang, mathLang>>

allLanguages == <<cLang, pythonLang, latexLang, mathLang>>

\* cLang.parse, latexLang.parse, pythonLang.parse, mathLang.parse
concreteParse(language, text) ==
  LET result == parserParse(language.lang, text)
  IN IF result.thrown THEN result
     ELSE Return([lang |-> language.lang, parsed |-> result.value])

\* the test turned round: the failure nearest the start is kept
\* the test with >= for >: the last of the furthest failures is kept
isFurtherOrEqual(e, error) ==
  e.location.start.offset >= error.location.start.offset

isNearer(e, error) == e.location.start.offset < error.location.start.offset

\* the test of the catch block: does the failure e replace the one kept?
isFurther(e, error) == e.location.start.offset > error.location.start.offset

RECURSIVE autoLoop(_, _, _, _)
\* the loop of autoLang.parse from the i-th language on
autoLoop(text, i, error, detected) ==
  IF i > Len(allLanguages)
  THEN Throw(ParseError([lang |-> "auto", string |-> text,
                         message |-> error.message,
                         location |-> error.location,
                         detected |-> detected]))
  ELSE LET result == concreteParse(allLanguages[i], text)
       IN IF ~result.thrown
          THEN Return([parsed |-> result.value.parsed,
                       lang |-> "auto",
                       detected |-> allLanguages[i].name])
          ELSE IF error = null
               THEN autoLoop(text, i + 1, result.error, allLanguages[i].name)
               ELSE IF isFurther(result.error, error)
                    THEN autoLoop(text, i + 1, result.error,
                                  allLanguages[i].name)
                    ELSE autoLoop(text, i + 1, error, detected)

autoLang == [name |-> "Auto detect", lang |-> "auto"]

languages ==
  [auto |-> autoLang, c |-> cLang, latex |-> latexLang, math |-> mathLang,
   python |-> pythonLang]

\* languages[lang].parse(string)
languageParse(language, text) ==
  IF language = autoLang THEN autoLoop(text, 1, null, nullStr)
  ELSE concreteParse(language, text)

(***************************************************************************)
(* model/index.js: parse, analyze, handleError                             *)
(***************************************************************************)
parse(input) ==
  LET parseResult == languageParse(languages[input.lang], input.string)
  IN IF ~parseResult.thrown
     THEN Return([lang |-> parseResult.value.lang,
                  detected |-> detectedOf(parseResult.value),
                  string |-> input.string,
                  showSubExpressions |-> input.showSubExpressions,
                  expressions |->
                    [i \in 1..Len(parseResult.value.parsed) |->
                       expressionFromJson(parseResult.value.parsed[i])]])
     ELSE Throw(ParseError([lang |-> input.lang, string |-> input.string,
                            message |-> parseResult.error.message,
                            location |-> parseResult.error.location,
                            detected |-> detectedOf(parseResult.error)]))

identifiersOf(expressionList) ==
  toSetToList(flatten([i \in 1..Len(expressionList) |->
                         collectIdentifiers(expressionList[i])]))

subExpressionsOf(expressionList) ==
  flatten([i \in 1..Len(expressionList) |->
             collectSubExpressions(expressionList[i])])

\* the filter with the test for constants left out
isNotIdentifier(e) == e.node # "identifier"

isToplevel(e) == e.node # "identifier" /\ e.node # "constant"

toplevelExpressionsOf(expressionList) == SelectSeq(expressionList, isToplevel)

\* an analysis that lists the sub-expressions only if they are to be shown
analyzeShown(parsed) ==
  [lang |-> parsed.lang,
   detected |-> parsed.detected,
   string |-> parsed.string,
   expressions |-> parsed.expressions,
   identifiers |-> identifiersOf(parsed.expressions),
   subExpressions |-> IF parsed.showSubExpressions
                      THEN subExpressionsOf(parsed.expressions)
                      ELSE <<>>,
   toplevelExpressions |-> toplevelExpressionsOf(parsed.expressions),
   showSubExpressions |-> parsed.showSubExpressions]

analyze(parsed) ==
  [lang |-> parsed.lang,
   detected |-> parsed.detected,
   string |-> parsed.string,
   expressions |-> parsed.expressions,
   identifiers |-> identifiersOf(parsed.expressions),
   subExpressions |-> subExpressionsOf(parsed.expressions),
   toplevelExpressions |-> toplevelExpressionsOf(parsed.expressions),
   showSubExpressions |-> parsed.showSubExpressions]

\* an error state that does not carry the detected notation
handleErrorWithoutDetected(error) ==
  [lang |-> error.lang,
   detected |-> undefinedStr,
   error |-> [location |-> error.location, message |-> error.message],
   string |-> error.string]

handleError(error) ==
  [lang |-> error.lang,
   detected |-> error.detected,
   error |-> [location |-> error.location, message |-> error.message],
   string |-> error.string]

\* O.just({...}).map(parse).map(analyze).catch(handleError)
document(text, language, show) ==
  LET parsed == parse([string |-> text, lang |-> language,
                       detected |-> nullStr, showSubExpressions |-> show])
  IN IF parsed.thrown THEN handleError(parsed.error)
     ELSE analyze(parsed.value)

(***************************************************************************)
(* model/index.js: row selection and the output state                      *)
(***************************************************************************)
pow2(i) == Number({i})
ToInt32(n) == Number({b \in n.bits : b < 32})
bitAnd(x, y) == Number(ToInt32(x).bits \cap ToInt32(y).bits)
truthy(n) == n.bits # {}

\* a scan that keeps the row it is given
scanWithoutToggle(prev, val) == val

\* .scan((prev, val) => prev === val ? null : val)
scan(prev, val) == IF prev = val THEN null ELSE val

\* the test of a truthy row: row 0 counts as no row
isTruthyRow(row) == row # null /\ row # Number({})

\* if (selectedRow !== null)
isSelected(row) == row # null

\* the map with Math.pow(2, i + 1) for Math.pow(2, i)
identifierMapShifted(identifiers, row) ==
  [name \in {identifiers[k] : k \in 1..Len(identifiers)} |->
     LET i == (CHOOSE k \in 1..Len(identifiers) : identifiers[k] = name) - 1
     IN truthy(bitAnd(pow2(i + 1), row))]

identifierMap(identifiers, row) ==
  [name \in {identifiers[k] : k \in 1..Len(identifiers)} |->
     LET i == (CHOOSE k \in 1..Len(identifiers) : identifiers[k] = name) - 1
     IN truthy(bitAnd(pow2(i), row))]

\* the Map of the evaluation: its keys are the top-level expressions and the
\* identifier names, kept apart here as two functions
subEvalutation(doc, row) ==
  LET map == identifierMap(doc.identifiers, row)
      toplevel == doc.toplevelExpressions
  IN [expressions |->
        [expr \in {toplevel[k] : k \in 1..Len(toplevel)} |->
           evaluateExpression(expr, map)],
      names |-> map]

\* the selector of the last .map: the output state for a row, or the
\* TypeError of calling .map on an undefined identifiers
outputState(text, language, show, doc, row) ==
  IF isSelected(row) /\ ~Has(doc, "identifiers")
  THEN Throw([name |-> "TypeError"])
  ELSE IF Has(doc, "error")
  THEN Return([lang |-> language,
               detected |-> doc.detected,
               string |-> text,
               showSubExpressions |-> show,
               error |-> doc.error,
               selectedRow |-> row,
               subEvalutation |-> null,
               table |-> <<>>])
  ELSE Return([lang |-> language,
               detected |-> doc.detected,
               string |-> text,
               expressions |-> doc.expressions,
               identifiers |-> doc.identifiers,
               subExpressions |-> doc.subExpressions,
               showSubExpressions |-> show,
               selectedRow |-> row,
               subEvalutation |-> IF isSelected(row)
                                  THEN subEvalutation(doc, row)
                                  ELSE null,
               toplevelExpressions |-> doc.toplevelExpressions,
               table |-> <<>>])

\* a text, by what each grammar makes of it
Text(c, python, latex, math) ==
  [c |-> c, python |-> python, latex |-> latex, math |-> math]

Message(grammar, offset) == <<"SyntaxError", grammar, offset>>

(***************************************************************************)
(* The grammar of app/components/logic/index.js, taken as the parser of    *)
(* the math notation: an LR parser whose shift/reduce conflicts are        *)
(* settled by the declared precedences. A text is the list of its words    *)
(* (whitespace is skipped).                                                *)
(***************************************************************************)
\* the lexer's rules, in their order
lex(word) ==
  CASE word = "true" -> "TRUE"
    [] word = "false" -> "FALSE"
    [] word = "and" -> "AND"
    [] word = "or" -> "OR"
    [] word = "xor" -> "XOR"
    [] word = "not" -> "NOT"
    [] word = "(" -> "("
    [] word = ")" -> ")"
    [] word = "," -> ","
    [] OTHER -> "IDENTIFIER"

lexAll(words) ==
  [i \in 1..Len(words) |-> [type |-> lex(words[i]), yytext |-> words[i]]]
    \o <<[type |-> "EOF", yytext |-> ""]>>

\* a table in which NOT is declared first
precedenceNotFirst == [NOT |-> 1, AND |-> 2, OR |-> 3, XOR |-> 4]

\* %left 'AND', %left 'OR', %left 'XOR', %left 'NOT': a later declaration
\* has the higher precedence
precedence == [AND |-> 1, OR |-> 2, XOR |-> 3, NOT |-> 4]

BinaryOperators == {"AND", "OR", "XOR"}

\* the tokens an expression starts with
Starters == {"IDENTIFIER", "TRUE", "FALSE", "NOT", "("}

\* the tokens that end an expression
Followers == {")", ",", "EOF"}

\* a shift/reduce conflict between a rule and the lookahead operator: the
\* higher precedence wins, and %left reduces on equal precedence
resolve(rule, lookahead) ==
  IF precedence[rule] < precedence[lookahead] THEN "shift" ELSE "reduce"

nonterminal(type, value) == [type |-> type, value |-> value]

\* an empty input that is a syntax error
emptyInputRejected == Rejects(Message("math", 0), 0)

\* expressions: EOF {return [];}
emptyInput == Accepts(<<>>)

RECURSIVE lr(_, _, _)
\* the parser: the stack of symbols, the tokens not yet read, and the
\* number of tokens read
lr(stack, input, pos) ==
  LET t == Head(input).type
      n == Len(stack)
      top == IF n = 0 THEN "" ELSE stack[n].type
      under == IF n < 2 THEN "" ELSE stack[n - 1].type
      shift == lr(Append(stack, Head(input)), Tail(input), pos + 1)
      reduce(k, symbol) ==
        lr(Append(SubSeq(stack, 1, n - k), symbol), input, pos)
      error == Rejects(Message("math", pos), pos)
      operator(action) ==
        IF t \in BinaryOperators
        THEN (IF resolve(under, t) = "reduce" THEN action ELSE shift)
        ELSE IF t \in Followers THEN action ELSE error
  IN CASE n = 0 ->
            IF t = "EOF" THEN emptyInput
            ELSE IF t \in Starters THEN shift ELSE error
       [] top = "IDENTIFIER" ->
            reduce(1, nonterminal("e", Identifier(stack[n].yytext)))
       [] top = "TRUE" -> reduce(1, nonterminal("e", Constant(TRUE)))
       [] top = "FALSE" -> reduce(1, nonterminal("e", Constant(FALSE)))
       [] top = ")" ->
            reduce(3, nonterminal("e", Group(stack[n - 1].value)))
       [] top \in BinaryOperators \cup {"NOT", "(", ","} ->
            IF t \in Starters THEN shift ELSE error
       [] top = "e" /\ under \in BinaryOperators ->
            operator(reduce(3, nonterminal("e",
              Binary(under, stack[n - 2].value, stack[n].value))))
       [] top = "e" /\ under = "NOT" ->
            operator(reduce(2, nonterminal("e", Unary(stack[n].value))))
       [] top = "e" /\ under = "(" ->
            IF t \in BinaryOperators \cup {")"} THEN shift ELSE error
       [] top = "e" /\ under = "" ->
            IF t \in BinaryOperators THEN shift
            ELSE IF t \in {",", "EOF"}
            THEN reduce(1, nonterminal("expressionList", <<stack[n].value>>))
            ELSE error
       [] top = "e" /\ under = "," ->
            IF t \in BinaryOperators THEN shift
            ELSE IF t \in {",", "EOF"}
            THEN reduce(3, nonterminal("expressionList",
                   Append(stack[n - 2].value, stack[n].value)))
            ELSE error
       [] top = "expressionList" ->
            IF t = "," THEN shift
            ELSE IF t = "EOF" THEN Accepts(stack[n].value) ELSE error

grammarParse(words) == lr(<<>>, lexAll(words), 0)

(***************************************************************************)
(* The texts, languages and rows the environment sends                     *)
(***************************************************************************)
a == Identifier("a")
b == Identifier("b")

\* ''
Empty == Text(Accepts(<<>>), Accepts(<<>>), Accepts(<<>>), emptyInput)

\* 'a and not b'
AndNot ==
  Text(Rejects(Message("c", 2), 2),
       Accepts(<<Binary("AND", a, Unary(b))>>),
       Rejects(Message("latex", 2), 2),
       Accepts(<<Binary("AND", a, Unary(b))>>))

\* 'b, (a) | b'
Pair ==
  Text(Accepts(<<b, Binary("OR", Group(a), b)>>),
       Accepts(<<b, Binary("OR", Group(a), b)>>),
       Rejects(Message("latex", 7), 7),
       Accepts(<<b, Binary("OR", Group(a), b)>>))

\* 'a and'
Broken ==
  Text(Rejects(Message("c", 2), 2),
       Rejects(Message("python", 5), 5),
       Rejects(Message("latex", 2), 2),
       Rejects(Message("math", 5), 5))

\* 'a xor true'
Xor ==
  Text(Rejects(Message("c", 2), 2),
       Accepts(<<Binary("XOR", a, Constant(TRUE))>>),
       Rejects(Message("latex", 2), 2),
       Accepts(<<Binary("XOR", a, Constant(TRUE))>>))

Texts == {Empty, AndNot, Pair, Xor, Broken}

Langs == {"auto", "c", "latex", "math", "python"}

\* rows 0, 1, 3 and 5
Rows == {Number({}), Number({0}), Number({0, 1}), Number({0, 2})}

(***************************************************************************)
(* The engine                                                              *)
(***************************************************************************)
Init ==
  /\ string = Empty
  /\ lang = "auto"
  /\ showSubExpressions = TRUE
  /\ analyzed = document(Empty, "auto", TRUE)
  /\ selectedRow = null
  /\ state = outputState(Empty, "auto", TRUE,
                         document(Empty, "auto", TRUE), null).value
  /\ status = "live"
  /\ event = [type |-> "subscribe", row |-> null, prev |-> null]

\* a change that leaves the previous inner stream, with its document, live
ChangeKeepingDocument(type, text, language, show) ==
  /\ status = "live"
  /\ string' = text
  /\ lang' = language
  /\ showSubExpressions' = show
  /\ analyzed' = analyzed
  /\ selectedRow' = null
  /\ state' = outputState(text, language, show, analyzed, null).value
  /\ status' = "live"
  /\ event' = [type |-> type, row |-> null, prev |-> selectedRow]

\* a change that leaves the scan of the previous inner stream in place
ChangeKeepingRow(type, text, language, show) ==
  /\ status = "live"
  /\ string' = text
  /\ lang' = language
  /\ showSubExpressions' = show
  /\ analyzed' = document(text, language, show)
  /\ selectedRow' = selectedRow
  /\ state' = outputState(text, language, show, analyzed', null).value
  /\ status' = "live"
  /\ event' = [type |-> type, row |-> null, prev |-> selectedRow]

\* combineLatest emits, switch drops the inner stream and subscribes to a
\* new one, which starts with null
Change(type, text, language, show) ==
  /\ status = "live"
  /\ string' = text
  /\ lang' = language
  /\ showSubExpressions' = show
  /\ analyzed' = document(text, language, show)
  /\ selectedRow' = null
  /\ state' = outputState(text, language, show, analyzed', null).value
  /\ status' = "live"
  /\ event' = [type |-> type, row |-> null, prev |-> selectedRow]

Input(text) == Change("input", text, lang, showSubExpressions)

Language(language) == Change("language", string, language, showSubExpressions)

ShowSubExpressions(show) == Change("showSubExpressions", string, lang, show)

\* selectRow$ emits into the live inner stream
SelectRow(row) ==
  LET out == outputState(string, lang, showSubExpressions, analyzed,
                         selectedRow')
  IN /\ status = "live"
     /\ selectedRow' = scan(selectedRow, row)
     /\ IF out.thrown
        THEN state' = state /\ status' = "error"
        ELSE state' = out.value /\ status' = "live"
     /\ event' = [type |-> "selectRow", row |-> row, prev |-> selectedRow]
     /\ UNCHANGED <<string, lang, showSubExpressions, analyzed>>

Next ==
  \/ \E text \in Texts : Input(text)
  \/ \E language \in Langs : Language(language)
  \/ \E show \in BOOLEAN : ShowSubExpressions(show)
  \/ \E row \in Rows : SelectRow(row)

Spec == Init /\ [][Next]_vars

(***************************************************************************)
(* Row selection                                                           *)
(***************************************************************************)
ChangeTypes == {"input", "language", "showSubExpressions"}

\* C1: every selectRow(r) leaves the scan holding none if r is the row held
\* just before the event and r otherwise, and an output state emitted for
\* the event carries that row.
C1_SelectRowToggles ==
  [][event'.type = "selectRow" =>
       /\ selectedRow' = IF event'.row = selectedRow THEN null ELSE event'.row
       /\ status' = "live" => state'.selectedRow = selectedRow']_vars

\* a row is selected a second time and the output state has no row
C1_Witness ==
  /\ event.type = "selectRow"
  /\ event.prev = event.row
  /\ status = "live"
  /\ state.selectedRow = null

\* C2: a new text, notation or flag, equal to the old one or not, gives an
\* output state with no row and no evaluation, and the first row selected
\* after it is selected, whatever was selected before it.
C2_ChangeResetsRow ==
  [][/\ event'.type \in ChangeTypes =>
          /\ selectedRow' = null
          /\ state'.selectedRow = null
          /\ state'.subEvalutation = null
     /\ (event.type \in ChangeTypes /\ event'.type = "selectRow") =>
          /\ selectedRow' = event'.row
          /\ status' = "live" => state'.selectedRow = event'.row]_vars

\* the text is sent again while a row is selected
C2_Witness ==
  /\ event.type = "input"
  /\ event.prev # null
  /\ state.selectedRow = null
  /\ state.subEvalutation = null

\* C3: a parse failure shows as the error field of the output state, and
\* the stream of output states never ends in an error.
C3_NoErrorEscapes ==
  /\ status = "live"
  /\ Has(state, "error") <=>
       parse([string |-> string, lang |-> lang, detected |-> nullStr,
              showSubExpressions |-> showSubExpressions]).thrown

(***************************************************************************)
(* Parsing: every way the four grammars can take a text. A grammar builds  *)
(* its own list of trees from it or fails at an offset up to MaxOffset.    *)
(***************************************************************************)
MaxOffset == 2

TreesOf ==
  [c |-> <<a>>, python |-> <<Binary("AND", a, b)>>,
   latex |-> <<Unary(a), b>>, math |-> <<Group(b)>>]

Outcomes(grammar) ==
  {Accepts(TreesOf[grammar])}
    \cup {Rejects(Message(grammar, offset), offset) : offset \in 0..MaxOffset}

ParseTexts ==
  {Text(c, python, latex, math) :
     c \in Outcomes("c"), python \in Outcomes("python"),
     latex \in Outcomes("latex"), math \in Outcomes("math")}

NextParse ==
  \/ \E text \in ParseTexts : Input(text)
  \/ \E language \in Langs : Language(language)

SpecParse == Init /\ [][NextParse]_vars

\* the order of detection and the names the grammars go by
Priority == <<"c", "python", "latex", "math">>
NameOf == [c |-> "C", python |-> "Python", latex |-> "Latex", math |-> "Math"]

accepts(grammar) == Has(string[grammar], "parsed")
offsetOf(grammar) == string[grammar].location.start.offset

\* the ParseError that parse throws for the current text and notation
thrownError ==
  parse([string |-> string, lang |-> lang, detected |-> nullStr,
         showSubExpressions |-> showSubExpressions]).error

\* C4: under auto, the output state of a text that some grammar accepts is
\* the parse of the first grammar of C, Python, Latex, Math that accepts
\* it, with notation auto and that grammar's name as detected notation.
C4_FirstGrammarWins ==
  \A k \in 1..4 :
    (/\ lang = "auto"
     /\ accepts(Priority[k])
     /\ \A j \in 1..(k - 1) : ~accepts(Priority[j]))
    => /\ ~Has(state, "error")
       /\ state.lang = "auto"
       /\ state.detected = NameOf[Priority[k]]
       /\ state.expressions =
            [i \in 1..Len(string[Priority[k]].parsed) |->
               expressionFromJson(string[Priority[k]].parsed[i])]

\* C and Python reject the text, Latex and Math accept it with different
\* trees, and the state has those of Latex
C4_Witness ==
  /\ lang = "auto"
  /\ ~accepts("c") /\ ~accepts("python")
  /\ accepts("latex") /\ accepts("math")
  /\ string.latex # string.math
  /\ state.detected = "Latex"
  /\ state.expressions = TreesOf.latex

\* C5: under auto, when all four grammars fail, the ParseError and the
\* output state carry notation auto and the name, message and location of
\* a grammar whose failure offset is the largest of the four.
C5_FurthestFailure ==
  (lang = "auto" /\ \A k \in 1..4 : ~accepts(Priority[k]))
  => \E k \in 1..4 :
       /\ \A j \in 1..4 : offsetOf(Priority[j]) <= offsetOf(Priority[k])
       /\ thrownError.lang = "auto"
       /\ thrownError.detected = NameOf[Priority[k]]
       /\ thrownError.message = string[Priority[k]].message
       /\ thrownError.location = string[Priority[k]].location
       /\ Has(state, "error")
       /\ state.lang = "auto"
       /\ state.detected = NameOf[Priority[k]]
       /\ state.error.message = string[Priority[k]].message
       /\ state.error.location = string[Priority[k]].location

\* all four fail, Latex alone the furthest, and Latex is reported
C5_Witness ==
  /\ lang = "auto"
  /\ \A k \in 1..4 : ~accepts(Priority[k])
  /\ \A g \in {"c", "python", "math"} : offsetOf(g) < offsetOf("latex")
  /\ Has(state, "error")
  /\ state.detected = "Latex"
  /\ state.error.message = Message("latex", offsetOf("latex"))

\* C6: under a concrete notation, a failure of its grammar becomes a
\* ParseError with that notation, the text, the grammar's message and
\* location, and detected = null.
C6_ConcreteFailure ==
  (lang # "auto" /\ ~accepts(lang))
  => /\ thrownError.lang = lang
     /\ thrownError.string = string
     /\ thrownError.message = string[lang].message
     /\ thrownError.location = string[lang].location
     /\ thrownError.detected = nullStr
     /\ Has(state, "error")
     /\ state.detected = nullStr

\* Python is asked for and rejects a text that C accepts
C6_Witness ==
  /\ lang = "python"
  /\ ~accepts("python")
  /\ accepts("c")
  /\ Has(state, "error")
  /\ state.detected = nullStr
  /\ state.error.message = Message("python", offsetOf("python"))

(***************************************************************************)
(* Analysis: lists of up to MaxExprs expressions from a pool, and lists of *)
(* many identifiers, up to MaxIdentifiers of them                          *)
(***************************************************************************)
MaxExprs == 2
MaxIdentifiers == 33

ExprPool ==
  {b,
   Constant(TRUE),
   Group(a),
   Binary("OR", Group(Binary("AND", a, b)), Group(Binary("AND", a, b)))}

\* 'c, b, a': the first n letters, the last of them first
Wide(n) == [i \in 1..n |-> Identifier(Alphabet[n + 1 - i])]

\* a text every grammar builds the same trees from
Accepted(parsed) ==
  Text(Accepts(parsed), Accepts(parsed), Accepts(parsed), Accepts(parsed))

AnalyzeTexts ==
  {Accepted(parsed) :
     parsed \in UNION {[1..n -> ExprPool] : n \in 0..MaxExprs}}
    \cup {Accepted(Wide(n)) :
            n \in {MAX_ARRAY_MAP_SIZE, MAX_ARRAY_MAP_SIZE + 1, MaxIdentifiers}}

\* rows 0, 1, 3 and 2^32
AnalyzeRows == {Number({}), Number({0}), Number({0, 1}), Number({32})}

NextAnalyze ==
  \/ \E text \in AnalyzeTexts : Input(text)
  \/ \E row \in AnalyzeRows : SelectRow(row)

SpecAnalyze == Init /\ [][NextAnalyze]_vars

\* the entries of a list, as a set
Entries(list) == {list[i] : i \in 1..Len(list)}

\* C7: identifiers holds every identifier name once, in the order in which
\* a depth-first pre-order walk of the expressions, in list order, sees the
\* names first.
C7_FirstSeenOrder ==
  ~Has(state, "error")
  => state.identifiers =
       Distinct(flatten([i \in 1..Len(state.expressions) |->
                           collectIdentifiers(state.expressions[i])]))

\* C8: subExpressions holds every node reachable from a top-level
\* expression and no two equal entries.
C8_SubExpressionsDistinct ==
  ~Has(state, "error")
  => /\ Entries(state.subExpressions) =
          UNION {Entries(preOrder(state.expressions[i])) :
                   i \in 1..Len(state.expressions)}
     /\ \A i, j \in 1..Len(state.subExpressions) :
          i # j => state.subExpressions[i] # state.subExpressions[j]

C9_Kept(e) == e.node \in {"binary", "unary", "group"}

\* C9: topLevelExpressions is the expression list without its bare
\* identifiers and bare constants, the rest in their order and number.
C9_ToplevelFilter ==
  ~Has(state, "error")
  => state.toplevelExpressions = SelectSeq(state.expressions, C9_Kept)

\* 'b, (a)': the bare identifier is dropped and the group is kept
C9_Witness ==
  /\ ~Has(state, "error")
  /\ state.expressions = <<b, Group(a)>>
  /\ state.toplevelExpressions = <<Group(a)>>

\* C10: with a row r below 2^|identifiers| selected, identifiers[i] is true
\* in the evaluation exactly if bit i of r is set.
C10_BitOfRow ==
  (/\ ~Has(state, "error")
   /\ state.selectedRow # null
   /\ state.selectedRow.bits \subseteq 0..(Len(state.identifiers) - 1))
  => \A i \in 0..(Len(state.identifiers) - 1) :
       state.subEvalutation.names[state.identifiers[i + 1]]
         = (i \in state.selectedRow.bits)

(***************************************************************************)
(* The evaluation                                                          *)
(***************************************************************************)
\* C11: an output state has no evaluation exactly if it has no row (row 0
\* is a row); with a row, the evaluation has an entry for every identifier,
\* the value the row assigns to it, and one for every top-level expression,
\* and no other.
C11_EvaluationKeys ==
  /\ state.subEvalutation = null <=> state.selectedRow = null
  /\ state.selectedRow # null =>
       /\ DOMAIN state.subEvalutation.names = Entries(state.identifiers)
       /\ DOMAIN state.subEvalutation.expressions
            = Entries(state.toplevelExpressions)
       /\ state.subEvalutation.names
            = identifierMap(state.identifiers, state.selectedRow)

\* row 0 of 'b, (a) | b' is selected and is evaluated
C11_Witness ==
  /\ string = Pair
  /\ state.selectedRow = Number({})
  /\ state.subEvalutation # null
  /\ state.subEvalutation.names = [a |-> FALSE, b |-> FALSE]
  /\ DOMAIN state.subEvalutation.expressions = {Binary("OR", Group(a), b)}

RECURSIVE C12_Value(_, _)
\* the two-valued value of an expression under an assignment
C12_Value(e, assignment) ==
  IF e.node = "constant" THEN e.value
  ELSE IF e.node = "identifier" THEN assignment[e.name]
  ELSE IF e.node = "group" THEN C12_Value(e.content, assignment)
  ELSE IF e.node = "unary" THEN C12_Value(e.operand, assignment) = FALSE
  ELSE LET l == C12_Value(e.lhs, assignment)
           r == C12_Value(e.rhs, assignment)
       IN IF e.operator = "AND" THEN (IF l THEN r ELSE FALSE)
          ELSE IF e.operator = "OR" THEN (IF l THEN TRUE ELSE r)
          ELSE (l /\ ~r) \/ (~l /\ r)

\* C12: with a row selected, the entry of every top-level expression is its
\* boolean value under the assignment of the identifiers; 'a and not b' is
\* true on row 1 and false on row 3.
C12_EvaluationCorrect ==
  state.selectedRow # null =>
    /\ \A k \in 1..Len(state.toplevelExpressions) :
         state.subEvalutation.expressions[state.toplevelExpressions[k]]
           = C12_Value(state.toplevelExpressions[k],
                       state.subEvalutation.names)
    /\ (string = AndNot /\ state.identifiers = <<"a", "b">>) =>
         /\ state.selectedRow = Number({0}) =>
              state.subEvalutation.expressions[Binary("AND", a, Unary(b))]
         /\ state.selectedRow = Number({0, 1}) =>
              ~state.subEvalutation.expressions[Binary("AND", a, Unary(b))]

\* 'a xor true' on row 1: a is true and the expression is false
C12_Witness ==
  /\ string = Xor
  /\ state.selectedRow = Number({0})
  /\ state.subEvalutation.names["a"]
  /\ ~state.subEvalutation.expressions[Binary("XOR", a, Constant(TRUE))]

(***************************************************************************)
(* The grammar: texts of words, parsed by the grammar as the math notation *)
(* (the other three notations reject them at their first character).       *)
(***************************************************************************)
GrammarText(words) ==
  [c |-> Rejects(Message("c", 0), 0),
   python |-> Rejects(Message("python", 0), 0),
   latex |-> Rejects(Message("latex", 0), 0),
   math |-> grammarParse(words),
   words |-> words]

Operands == {"a", "b", "c"}

OperatorWords == {"and", "or", "xor"}

GrammarWords ==
  {<<x, o1, y, o2, z>> : x \in Operands, o1 \in OperatorWords,
                         y \in Operands, o2 \in OperatorWords,
                         z \in Operands}
    \cup {<<"not", x, o, y>> :
            x \in Operands, o \in OperatorWords, y \in Operands}
    \cup {<<"not", "(", x, o, y, ")">> :
            x \in Operands, o \in OperatorWords, y \in Operands}
    \cup {<<>>, <<"(", "(", "a", ")", ")">>, <<"a", ",", "not", "true">>,
          <<"false", "xor", "(", "a", "or", "b", ")">>,
          <<"a", "and">>, <<"(", "a">>, <<"a", ")">>, <<"a", "b">>,
          <<"false", ",">>, <<"(", "a", ",", "b", ")">>,
          <<"a", "not", "b">>, <<"or">>}

GrammarTexts == {GrammarText(words) : words \in GrammarWords}

NextGrammar ==
  \/ \E text \in GrammarTexts : Input(text)
  \/ \E language \in Langs : Language(language)

SpecGrammar == Init /\ [][NextGrammar]_vars

\* the text is the given words and the grammar parses it
Parsing(words) ==
  /\ Has(string, "words")
  /\ string.words = words
  /\ lang \in {"auto", "math"}

\* the output state holds exactly the given expressions
Parsed(expressions) ==
  /\ Has(state, "expressions")
  /\ state.expressions = expressions

OperatorOf == [and |-> "AND", or |-> "OR", xor |-> "XOR"]

\* C13: AND binds tighter than OR and XOR: for all operands x, y, z and
\* op either or or xor, 'x op y and z' parses as op(x, AND(y, z)) and
\* 'x and y op z' as op(AND(x, y), z).
C13_AndBindsTighter ==
  \A x \in Operands, y \in Operands, z \in Operands, op \in {"or", "xor"} :
    /\ Parsing(<<x, op, y, "and", z>>) =>
         Parsed(<<Binary(OperatorOf[op], Identifier(x),
                         Binary("AND", Identifier(y), Identifier(z)))>>)
    /\ Parsing(<<x, "and", y, op, z>>) =>
         Parsed(<<Binary(OperatorOf[op],
                         Binary("AND", Identifier(x), Identifier(y)),
                         Identifier(z))>>)

\* C14: OR and XOR have equal precedence and every binary operator is left
\* associative: for all operands, a chain of OR and XOR, and a chain of one
\* operator, groups strictly left to right.
C14_OrXorLeftToRight ==
  \A x \in Operands, y \in Operands, z \in Operands,
     o1 \in OperatorWords, o2 \in OperatorWords :
    (Parsing(<<x, o1, y, o2, z>>)
       /\ ({o1, o2} \subseteq {"or", "xor"} \/ o1 = o2)) =>
      Parsed(<<Binary(OperatorOf[o2],
                      Binary(OperatorOf[o1], Identifier(x), Identifier(y)),
                      Identifier(z))>>)

\* C20: NOT binds tighter than every binary operator and parentheses
\* override precedence: 'not x op y' parses as op(NOT(x), y), 'not (x op y)'
\* as NOT(Group(op(x, y))), and each pair of parentheses is one group node.
C20_NotBindsTightest ==
  /\ \A x \in Operands, y \in Operands, o \in OperatorWords :
       /\ Parsing(<<"not", x, o, y>>) =>
            Parsed(<<Binary(OperatorOf[o], Unary(Identifier(x)),
                            Identifier(y))>>)
       /\ Parsing(<<"not", "(", x, o, y, ")">>) =>
            Parsed(<<Unary(Group(Binary(OperatorOf[o], Identifier(x),
                                        Identifier(y))))>>)
  /\ Parsing(<<"(", "(", "a", ")", ")">>) => Parsed(<<Group(Group(a))>>)
  /\ Parsing(<<"false", "xor", "(", "a", "or", "b", ")">>) =>
       Parsed(<<Binary("XOR", Constant(FALSE),
                       Group(Binary("OR", a, b)))>>)

\* 'not a and b' is parsed, and is the conjunction of 'not a' and b
C20_Witness ==
  /\ Parsing(<<"not", "a", "and", "b">>)
  /\ Parsed(<<Binary("AND", Unary(a), b)>>)

(***************************************************************************)
(* The output state of a text, a notation and a flag                       *)
(***************************************************************************)
\* C15: the empty text is not an error: under every notation the output
\* state of a change has empty expressions, identifiers, subExpressions and
\* toplevelExpressions, no error and no selected row.
C15_EmptyInput ==
  (string = Empty /\ event.type # "selectRow") =>
    /\ Parsed(<<>>)
    /\ state.identifiers = <<>>
    /\ state.subExpressions = <<>>
    /\ state.toplevelExpressions = <<>>
    /\ ~Has(state, "error")
    /\ state.selectedRow = null
    /\ state.subEvalutation = null

\* the text is changed back to the empty text under the math notation
C15_Witness ==
  /\ string = Empty
  /\ lang = "math"
  /\ event.type = "input"
  /\ event.prev # null
  /\ Parsed(<<>>)

C17_ShowSubExpressionsPassthrough ==
  LET other == outputState(string, lang, ~showSubExpressions,
                           document(string, lang, ~showSubExpressions),
                           state.selectedRow)
  IN /\ state.showSubExpressions = showSubExpressions
     /\ ~other.thrown
     /\ other.value.showSubExpressions = ~showSubExpressions
     /\ [other.value EXCEPT !.showSubExpressions = showSubExpressions]
          = state

\* the flag is switched off on a document that has sub-expressions
C17_Witness ==
  /\ event.type = "showSubExpressions"
  /\ ~showSubExpressions
  /\ ~state.showSubExpressions
  /\ Has(state, "subExpressions")
  /\ Len(state.subExpressions) > 1

\* C18: the detected notation of an output state is none (null or
\* undefined) under a concrete notation, whether its grammar accepts or
\* rejects the text, and under auto it is the name of one of the four
\* grammars, on success and on total failure.
C18_DetectedOnlyUnderAuto ==
  /\ lang # "auto" => state.detected \in {nullStr, undefinedStr}
  /\ lang = "auto" => state.detected \in {NameOf[g] : g \in DOMAIN NameOf}

\* under auto all four grammars fail and a grammar is still named
C18_Witness ==
  /\ lang = "auto"
  /\ \A k \in 1..4 : ~accepts(Priority[k])
  /\ Has(state, "error")
  /\ state.detected = "Python"

\* the first grammar, in the order C, Python, Latex, Math, whose failure
\* is at the largest offset
C19_First ==
  CHOOSE k \in 1..4 :
    /\ \A j \in 1..4 : offsetOf(Priority[j]) <= offsetOf(Priority[k])
    /\ \A j \in 1..(k - 1) : offsetOf(Priority[j]) < offsetOf(Priority[k])

\* C19: under auto, when all four grammars fail, the ParseError and the
\* output state carry the name, message and location of the first grammar
\* in the order C, Python, Latex, Math among those failing at the largest
\* offset.
C19_FirstOfTied ==
  (lang = "auto" /\ \A k \in 1..4 : ~accepts(Priority[k]))
  => /\ thrownError.detected = NameOf[Priority[C19_First]]
     /\ thrownError.message = string[Priority[C19_First]].message
     /\ thrownError.location = string[Priority[C19_First]].location
     /\ Has(state, "error")
     /\ state.detected = NameOf[Priority[C19_First]]
     /\ state.error.message = string[Priority[C19_First]].message
     /\ state.error.location = string[Priority[C19_First]].location

\* Python and Math fail at the same offset, further than C and Latex, and
\* Python is reported
C19_Witness ==
  /\ lang = "auto"
  /\ \A k \in 1..4 : ~accepts(Priority[k])
  /\ offsetOf("python") = offsetOf("math")
  /\ offsetOf("c") < offsetOf("python")
  /\ offsetOf("latex") < offsetOf("python")
  /\ Has(state, "error")
  /\ state.detected = "Python"
  /\ state.error.message = Message("python", offsetOf("python"))

====
